---- MODULE Spec2Model ----
(***************************************************************************)
(* The ErrorBlacklist cog (errorblacklist/errorblacklist.py): an event     *)
(* listener that counts, per user and per command, the commands that end   *)
(* in a CommandInvokeError and blacklists a user at a threshold; owner     *)
(* commands that edit the settings; and a 24-hour task that clears the     *)
(* stored usage.  The host (Red / discord.py) appears only through what    *)
(* the cog calls: the Config object, the bot's blacklist, ctx.send, the    *)
(* logger and the tasks.Loop.  The commands that only show something       *)
(* (errblversion, the two lists, showsettings) change no state and are     *)
(* left out.                                                               *)
(*                                                                         *)
(* Spec runs each handler to its end in one action.  ListenerSpec and      *)
(* CommandSpec run the listener and the list commands one await at a time, *)
(* so that handlers started before another has ended overlap.              *)
(***************************************************************************)
EXTENDS Integers, Sequences, FiniteSets, Bags, TLC

\* ---------------------------------------------------------------- bounds
\* The largest value a counter is driven to.
MaxCount == 2
\* The integers given to the `amount` command: an amount above MaxCount is as
\* far out of a counter's reach as the default.
AmountArgs == 0..MaxCount
\* The largest number of settings that differ from their defaults at one time.
MaxChanged == 2
\* The largest number of handlers suspended at an await at one time.
MaxTasks == 2

\* ---------------------------------------------------------------- values
\* Python's None.
None == "None"

\* The default warning text of _config_structure["global"]["message"].
DefaultMessage == "Please do not use this command anymore."
\* A text an owner gives to `message set`.
CustomMessage == "Stop that."

\* The bot owner and an ordinary user.
OwnerId == "owner"
UserId == "user"
Users == {OwnerId, UserId}

\* One guild with one channel; a command used in a DM has guild None.
GuildId == "guild"
ChannelId == "channel"
DMChannelId == "dm"

\* The cog whose commands error.
ToolsCog == "Tools"
Cogs == {ToolsCog}

\* Commands as the handler sees them: qualified_name, name (the last word of
\* the qualified name) and cog.  `sub` is a top-level command, `grp sub` a
\* subcommand with the same short name, `ping` a command outside any cog.
Sub == [qualified_name |-> "sub", name |-> "sub", cog |-> ToolsCog]
GrpSub == [qualified_name |-> "grp sub", name |-> "sub", cog |-> ToolsCog]
Ping == [qualified_name |-> "ping", name |-> "ping", cog |-> None]
CogCommands == {Sub, GrpSub}
Commands == CogCommands \cup {Ping}

\* The error types dispatched to on_command_error.
Errors == {"CommandInvokeError", "CheckFailure"}

\* The contexts of the on_command_error events.  `handled` is the test of
\* lines 328-333: no unhandled_by_cog, and the command or its cog has its own
\* error handler.
AllContexts ==
    [author : Users, command : Commands, guild : {None, GuildId},
     err : Errors, handled : BOOLEAN]

\* The events of the model: the unhandled CommandInvokeErrors of the user's cog
\* commands in the guild and in a DM and of an owner's in the guild, and for
\* the user in the guild each single way of failing the tests of lines 328-336.
Contexts ==
    {ctx \in AllContexts :
        \/ /\ ctx.command \in CogCommands /\ ctx.err = "CommandInvokeError" /\ ~ctx.handled
           /\ ctx.author = OwnerId => ctx.command = Sub /\ ctx.guild = GuildId
        \/ /\ ctx.author = UserId /\ ctx.guild = GuildId /\ ctx.command # GrpSub
           /\ (ctx.command = Ping) => (ctx.err = "CommandInvokeError" /\ ~ctx.handled)
           /\ ~(ctx.handled /\ ctx.err # "CommandInvokeError")}

\* ctx.channel.id: the guild's channel, or the DM channel.
ChannelOf(ctx) == IF ctx.guild = None THEN DMChannelId ELSE ChannelId

\* ---------------------------------------------------------------- state
VARIABLES
    config,      \* the persisted global settings (Config, "global" scope)
    userconf,    \* the persisted per-user data (Config, "user" scope)
    cache,       \* self._cache
    first_run,   \* self.first_run
    running,     \* self.clear_cache.is_running()
    loaded,      \* the cog is loaded in the bot
    blacklist,   \* the bot's blacklist
    sent,        \* what the last handler sent with ctx.send (None: nothing)
    log,         \* the last line the last handler logged (None: nothing)
    exc,         \* the exception the last handler raised (None: it returned)
    last,        \* the last handler that ran and its argument
    inflight     \* the handlers suspended at an await (a bag of their frames)

vars ==
    <<config, userconf, cache, first_run, running, loaded, blacklist, sent,
      log, exc, last, inflight>>

\* ---------------------------------------------------------------- lists, dicts
\* x in list
In(x, list) == \E i \in 1..Len(list) : list[i] = x

\* list.remove(x): removes the first occurrence.
RECURSIVE ListRemove(_, _)
ListRemove(list, x) ==
    IF list = <<>> THEN <<>>
    ELSE IF Head(list) = x THEN Tail(list)
    ELSE <<Head(list)>> \o ListRemove(Tail(list), x)

\* The empty dict.
EmptyDict == [k \in {} |-> 0]

\* dict.get(k) of a dict of counts, by its truth value: 0 stands for the None
\* of a missing key (both are falsy at line 371, and no stored count is 0).
GetCount(d, k) == IF k \in DOMAIN d THEN d[k] ELSE 0

\* d[k] = v
Put(d, k, v) == [j \in DOMAIN d \cup {k} |-> IF j = k THEN v ELSE d[j]]

\* ---------------------------------------------------------------- settings
\* _config_structure["global"]
DefaultGlobal ==
    [enabled |-> FALSE,
     amount |-> 5,
     clear_usage |-> TRUE,
     whitelist |-> [commands |-> <<>>, cogs |-> <<>>, users |-> <<>>],
     ignore |-> [guilds |-> <<>>, channels |-> <<>>],
     message |-> DefaultMessage,
     message_enabled |-> TRUE]

\* The keys of _config_structure itself.
ConfigStructureKeys == {"global", "user"}

\* config.all_users(): the users that have stored data.
all_users == userconf

\* bot.is_owner(user)
is_owner(user) == user = OwnerId

\* ---------------------------------------------------------------- lifecycle
\* ErrorBlacklist.__init__ on a fresh installation, before the cog is loaded.
Init ==
    /\ config = DefaultGlobal
    /\ userconf = EmptyDict
    /\ cache = EmptyDict
    /\ first_run = TRUE
    /\ running = FALSE
    /\ loaded = FALSE
    /\ blacklist = {}
    /\ sent = None
    /\ log = None
    /\ exc = None
    /\ last = [op |-> "__init__", arg |-> None]
    /\ inflight = EmptyBag

\* Loading the cog: the bot builds a new instance (__init__: an empty cache,
\* first_run True) and awaits cog_load, which starts the task if clear_usage
\* is set and reads the cache from the stored user data.
cog_load ==
    /\ ~loaded
    /\ loaded' = TRUE
    /\ first_run' = TRUE
    /\ running' = config.clear_usage
    /\ cache' = all_users
    /\ sent' = None
    /\ log' = None
    /\ exc' = None
    /\ last' = [op |-> "cog_load", arg |-> None]
    /\ UNCHANGED <<config, userconf, blacklist, inflight>>

\* Unloading the cog: cog_unload cancels the task if it runs, and the bot drops
\* the instance with its cache and first_run (the next load builds another).
cog_unload ==
    /\ loaded
    /\ loaded' = FALSE
    /\ running' = FALSE
    /\ cache' = EmptyDict
    /\ first_run' = TRUE
    /\ sent' = None
    /\ log' = None
    /\ exc' = None
    /\ last' = [op |-> "cog_unload", arg |-> None]
    /\ UNCHANGED <<config, userconf, blacklist, inflight>>

\* ---------------------------------------------------------------- the listener
\* Lines 328-336: the error was handled elsewhere, is no CommandInvokeError,
\* or the command belongs to no cog.
Prefiltered(ctx) ==
    \/ ctx.handled
    \/ ctx.err # "CommandInvokeError"
    \/ ctx.command.cog = None

\* Exempt without the owner test.
ExemptDisabledOnly(ctx) == ~config.enabled

\* Line 339: the watcher is disabled or the author is an owner.
Exempt(ctx) == ~config.enabled \/ is_owner(ctx.author)

\* Ignored without the channel test.
IgnoredGuildOnly(ctx) ==
    /\ ctx.guild # None
    /\ In(ctx.guild, config.ignore.guilds)

\* Lines 342-352: the guild or the channel of a guild event is ignored.
Ignored(ctx) ==
    /\ ctx.guild # None
    /\ \/ In(ctx.guild, config.ignore.guilds)
       \/ In(ChannelOf(ctx), config.ignore.channels)

\* Lines 354-358: the command's qualified name or the author is whitelisted.
Whitelisted(ctx) ==
    \/ In(ctx.command.qualified_name, config.whitelist.commands)
    \/ In(ctx.author, config.whitelist.users)

\* The event returns before it is counted.
Skipped(ctx) ==
    Prefiltered(ctx) \/ Exempt(ctx) \/ Ignored(ctx) \/ Whitelisted(ctx)

\* Warning with the message sent whether or not it is enabled.
WarningAlways(c) == c.message

\* Lines 359-360: what the handler sends to the channel, the message if it is
\* enabled, else nothing.
Warning(c) == IF c.message_enabled THEN c.message ELSE None

\* Increment with the KeyError branch replacing the user's whole entry.
IncrementDropping(c, uid, name) ==
    IF uid \notin DOMAIN c THEN Put(c, uid, Put(EmptyDict, name, 1))
    ELSE IF name \in DOMAIN c[uid]
         THEN Put(c, uid, Put(c[uid], name, c[uid][name] + 1))
         ELSE Put(c, uid, Put(EmptyDict, name, 1))

\* Increment that always takes the assigning branch: the count becomes 1.
IncrementAssigning(c, uid, name) ==
    IF uid \notin DOMAIN c THEN Put(c, uid, Put(EmptyDict, name, 1))
    ELSE Put(c, uid, Put(c[uid], name, 1))

\* Lines 362-368: the count of `name` for user `uid` goes up by one.
Increment(c, uid, name) ==
    IF uid \notin DOMAIN c THEN Put(c, uid, Put(EmptyDict, name, 1))
    ELSE IF name \in DOMAIN c[uid]
         THEN Put(c, uid, Put(c[uid], name, c[uid][name] + 1))
         ELSE Put(c, uid, Put(c[uid], name, 1))

\* Line 371: the count looked up under the command's short name has reached
\* the amount.
Reached(c, ctx) ==
    LET am == GetCount(c[ctx.author], ctx.command.name)
    IN  am # 0 /\ am >= config.amount

\* The count of a user for a name in a cache (0: none).
CountOf(c, uid, name) ==
    IF uid \in DOMAIN c THEN GetCount(c[uid], name) ELSE 0

on_command_error(ctx) ==
    /\ loaded
    \* the bot runs no command of a blacklisted user
    /\ ctx.author \notin blacklist
    /\ Skipped(ctx) \/ CountOf(cache, ctx.author, ctx.command.qualified_name) < MaxCount
    /\ last' = [op |-> "on_command_error", arg |-> ctx]
    /\ exc' = None
    /\ IF Prefiltered(ctx) \/ Exempt(ctx)
       THEN /\ sent' = None
            /\ log' = None
            /\ UNCHANGED <<cache, blacklist>>
       ELSE IF Ignored(ctx)
       THEN /\ sent' = None
            /\ log' = "Ignored tbh"
            /\ UNCHANGED <<cache, blacklist>>
       ELSE IF Whitelisted(ctx)
       THEN /\ sent' = None
            /\ log' = IF ctx.guild # None THEN "In a guild" ELSE None
            /\ UNCHANGED <<cache, blacklist>>
       ELSE /\ sent' = Warning(config)
            /\ cache' = Increment(cache, ctx.author, ctx.command.qualified_name)
            /\ IF Reached(cache', ctx)
               THEN /\ log' = "Blacklisted"
                    /\ blacklist' = blacklist \cup {ctx.author}
               ELSE /\ log' = IF ctx.guild # None THEN "In a guild" ELSE None
                    /\ UNCHANGED blacklist
    /\ UNCHANGED <<config, userconf, first_run, running, loaded, inflight>>

\* ---------------------------------------------------------------- the task
\* clear_cache that returns without cancelling the task when clear_usage is off.
clear_cache_no_cancel ==
    /\ loaded
    /\ running
    /\ last' = [op |-> "clear_cache", arg |-> None]
    /\ sent' = None
    /\ exc' = None
    /\ IF first_run
       THEN /\ first_run' = FALSE
            /\ log' = None
            /\ UNCHANGED <<running, userconf>>
       ELSE IF ~config.clear_usage
       THEN /\ log' = None
            /\ UNCHANGED <<first_run, running, userconf>>
       ELSE /\ userconf' = EmptyDict
            /\ log' = "Cleared user usage"
            /\ UNCHANGED <<first_run, running>>
    /\ UNCHANGED <<config, cache, loaded, blacklist, inflight>>

\* One run of the clear_cache loop body.
clear_cache ==
    /\ loaded
    /\ running
    /\ last' = [op |-> "clear_cache", arg |-> None]
    /\ sent' = None
    /\ exc' = None
    /\ IF first_run
       THEN /\ first_run' = FALSE
            /\ log' = None
            /\ UNCHANGED <<running, userconf>>
       ELSE IF ~config.clear_usage
       THEN /\ running' = FALSE
            /\ log' = None
            /\ UNCHANGED <<first_run, userconf>>
       ELSE /\ userconf' = EmptyDict
            /\ log' = "Cleared user usage"
            /\ UNCHANGED <<first_run, running>>
    /\ UNCHANGED <<config, cache, loaded, blacklist, inflight>>

\* ---------------------------------------------------------------- the commands
\* The number of settings of c that differ from their defaults.
Changed(c) ==
    Cardinality({k \in {"enabled", "amount", "clear_usage", "message", "message_enabled"} :
                    c[k] # DefaultGlobal[k]})
    + Cardinality({k \in {"commands", "cogs", "users"} : c.whitelist[k] # <<>>})
    + Cardinality({k \in {"guilds", "channels"} : c.ignore[k] # <<>>})

\* What a settings command leaves alone; the settings stay within MaxChanged.
CommandFrame ==
    /\ Changed(config') <= MaxChanged
    /\ UNCHANGED <<userconf, cache, first_run, running, loaded, blacklist, inflight>>

\* The guilds and channels given to `ignore add` and `ignore remove`.
IgnoreTargets ==
    {[kind |-> "guild", id |-> GuildId], [kind |-> "channel", id |-> ChannelId]}

\* config.ignore.guilds or config.ignore.channels
IgnoreList(kind) ==
    IF kind = "guild" THEN config.ignore.guilds ELSE config.ignore.channels

\* The settings with that list replaced.
WithIgnoreList(kind, data) ==
    IF kind = "guild" THEN [config EXCEPT !.ignore.guilds = data]
    ELSE [config EXCEPT !.ignore.channels = data]

ignore_add(t) ==
    /\ loaded
    /\ last' = [op |-> "ignore_add", arg |-> t]
    /\ log' = None
    /\ exc' = None
    /\ IF In(t.id, IgnoreList(t.kind))
       THEN /\ sent' = "That " \o t.kind \o " is already being ignored"
            /\ UNCHANGED config
       ELSE /\ config' = WithIgnoreList(t.kind, Append(IgnoreList(t.kind), t.id))
            /\ sent' = "I will now ignore the " \o t.kind
    /\ CommandFrame

ignore_remove(t) ==
    /\ loaded
    /\ last' = [op |-> "ignore_remove", arg |-> t]
    /\ log' = None
    /\ exc' = None
    /\ IF ~In(t.id, IgnoreList(t.kind))
       THEN /\ sent' = "That " \o t.kind \o " is not in the ignored list"
            /\ UNCHANGED config
       ELSE /\ config' = WithIgnoreList(t.kind, ListRemove(IgnoreList(t.kind), t.id))
            /\ sent' = "I will no longer ignore the " \o t.kind
    /\ CommandFrame

error_blacklist_enable ==
    /\ loaded
    /\ last' = [op |-> "error_blacklist_enable", arg |-> None]
    /\ log' = None
    /\ exc' = None
    /\ config' = [config EXCEPT !.enabled = ~config.enabled]
    /\ sent' = IF config'.enabled THEN "The error watcher is now enabled."
               ELSE "The error watcher is now disabled."
    /\ CommandFrame

error_blacklist_clear_usage(toggle) ==
    /\ loaded
    /\ last' = [op |-> "error_blacklist_clear_usage", arg |-> toggle]
    /\ log' = None
    /\ exc' = None
    /\ IF config.clear_usage = toggle
       THEN /\ sent' = IF toggle THEN "Usage clearing is already enabled."
                       ELSE "Usage clearing is already disabled."
            /\ UNCHANGED config
       ELSE /\ config' = [config EXCEPT !.clear_usage = toggle]
            /\ sent' = IF toggle THEN "Usage clearing is now enabled."
                       ELSE "Usage clearing is now disabled."
    /\ CommandFrame

\* The converter of the `amount` argument (utils.PositiveInt): the command
\* runs for the integers above 0.
PositiveInt(n) == n > 0

\* error_blacklist_amount without the refusal of 1.
error_blacklist_amount_unrefused(amount) ==
    /\ loaded
    /\ PositiveInt(amount)
    /\ last' = [op |-> "error_blacklist_amount", arg |-> amount]
    /\ log' = None
    /\ exc' = None
    /\ config' = [config EXCEPT !.amount = amount]
    /\ sent' = "Done. A user is blacklisted after amount errors"
    /\ CommandFrame

error_blacklist_amount(amount) ==
    /\ loaded
    /\ PositiveInt(amount)
    /\ last' = [op |-> "error_blacklist_amount", arg |-> amount]
    /\ log' = None
    /\ exc' = None
    /\ IF amount = 1
       THEN /\ sent' = "Have mercy on them"
            /\ UNCHANGED config
       ELSE /\ config' = [config EXCEPT !.amount = amount]
            /\ sent' = "Done. A user is blacklisted after amount errors"
    /\ CommandFrame

\* The users, commands and cogs given to `whitelist add` and `whitelist remove`.
WhitelistTargets ==
    [kind : {"user"}, value : {UserId}]
        \cup [kind : {"command"}, value : {c.qualified_name : c \in CogCommands}]
        \cup [kind : {"cog"}, value : Cogs]

\* _get_user_or_com: is_user, the kind, and the id or qualified name.
get_user_or_com(maybe_user) ==
    <<maybe_user.kind = "user", maybe_user.kind, maybe_user.value>>

\* config.whitelist.users, .commands or .cogs
WhitelistOf(kind) ==
    CASE kind = "user" -> config.whitelist.users
      [] kind = "command" -> config.whitelist.commands
      [] kind = "cog" -> config.whitelist.cogs

\* The settings with that list replaced.
WithWhitelist(kind, f) ==
    CASE kind = "user" -> [config EXCEPT !.whitelist.users = f]
      [] kind = "command" -> [config EXCEPT !.whitelist.commands = f]
      [] kind = "cog" -> [config EXCEPT !.whitelist.cogs = f]

whitelist_add(t) ==
    LET user == get_user_or_com(t)[2]
        to_add == get_user_or_com(t)[3]
    IN  /\ loaded
        /\ last' = [op |-> "whitelist_add", arg |-> t]
        /\ log' = None
        /\ exc' = None
        /\ IF In(to_add, WhitelistOf(user))
           THEN /\ sent' = "That " \o user \o " is already in the whitelist."
                /\ UNCHANGED config
           ELSE /\ sent' = "Done. Added to the whitelist as a " \o user
                /\ config' = WithWhitelist(user, Append(WhitelistOf(user), to_add))
        /\ CommandFrame

whitelist_remove(t) ==
    LET user == get_user_or_com(t)[2]
        to_add == get_user_or_com(t)[3]
    IN  /\ loaded
        /\ last' = [op |-> "whitelist_remove", arg |-> t]
        /\ log' = None
        /\ exc' = None
        /\ IF ~In(to_add, WhitelistOf(user))
           THEN /\ sent' = "That " \o user \o " is not in the whitelist."
                /\ UNCHANGED config
           ELSE /\ sent' = "Done. Removed from the whitelist as a " \o user
                /\ config' = WithWhitelist(user, ListRemove(WhitelistOf(user), to_add))
        /\ CommandFrame

\* The arguments of `message set` after NoneConverter: None or a text.
MessageArgs == {None, CustomMessage}

\* `message set`; the check `enabled` lets it run only while message_enabled.
message_set(message) ==
    /\ loaded
    /\ config.message_enabled
    /\ last' = [op |-> "message_set", arg |-> message]
    /\ log' = None
    /\ IF message # None
       THEN /\ config' = [config EXCEPT !.message = message]
            /\ sent' = "The message has been set"
            /\ exc' = None
       ELSE IF "message" \in ConfigStructureKeys
       THEN /\ config' = [config EXCEPT !.message = DefaultGlobal.message]
            /\ sent' = "The message has been reset"
            /\ exc' = None
       ELSE /\ exc' = "KeyError"
            /\ sent' = None
            /\ UNCHANGED config
    /\ CommandFrame

message_enable ==
    /\ loaded
    /\ last' = [op |-> "message_enable", arg |-> None]
    /\ log' = None
    /\ exc' = None
    /\ config' = [config EXCEPT !.message_enabled = ~config.message_enabled]
    /\ sent' = IF config.message_enabled THEN "The warning message has been disabled."
               ELSE "The warning message has been enabled."
    /\ CommandFrame

\* ---------------------------------------------------------------- the system
Next ==
    \/ cog_load
    \/ cog_unload
    \/ \E ctx \in Contexts : on_command_error(ctx)
    \/ clear_cache
    \/ \E t \in IgnoreTargets : ignore_add(t)
    \/ \E t \in IgnoreTargets : ignore_remove(t)
    \/ error_blacklist_enable
    \/ \E toggle \in BOOLEAN : error_blacklist_clear_usage(toggle)
    \/ \E amount \in AmountArgs : error_blacklist_amount(amount)
    \/ \E t \in WhitelistTargets : whitelist_add(t)
    \/ \E t \in WhitelistTargets : whitelist_remove(t)
    \/ \E message \in MessageArgs : message_set(message)
    \/ message_enable

Spec == Init /\ [][Next]_vars

\* The loop runs its body again after every 24 hours while the task runs.
FairSpec == Spec /\ WF_vars(clear_cache)

\* ---------------------------------------------------------------- the listener, await by await
\* The frame of a handler of on_command_error suspended at an await: its
\* event, the call it awaits, and the text it read for the warning (line 360).
ListenerFrame(ctx, pc, message) ==
    [op |-> "on_command_error", ctx |-> ctx, pc |-> pc, message |-> message]

\* The frames of the suspended handlers.
Suspended == BagToSet(inflight)

\* The handler with frame t goes on to its next await.
Resume(t, pc, message) ==
    inflight' = (inflight (-) SetToBag({t})) (+) SetToBag({ListenerFrame(t.ctx, pc, message)})

\* The handler with frame t returns.
Return(t) == inflight' = inflight (-) SetToBag({t})

\* The suspended handlers of the event's author and command that have not
\* reached lines 362-368 yet.
Uncounted(ctx) ==
    LET before == {t \in Suspended :
                    /\ t.op = "on_command_error"
                    /\ t.ctx.author = ctx.author
                    /\ t.ctx.command.qualified_name = ctx.command.qualified_name
                    /\ t.pc \notin {"amount", "add_to_blacklist"}}
        Sum[S \in SUBSET before] ==
            IF S = {} THEN 0
            ELSE LET t == CHOOSE x \in S : TRUE
                 IN  CopiesIn(t, inflight) + Sum[S \ {t}]
    IN  Sum[before]

\* What a step of a suspended listener leaves alone.
ListenerStep(t) ==
    /\ t.op = "on_command_error"
    /\ last' = [op |-> "on_command_error", arg |-> t.ctx]
    /\ exc' = None
    /\ UNCHANGED <<config, userconf, first_run, running, loaded>>

\* The events of the overlapping handlers: the user's `sub` in the guild and
\* `grp sub` in a DM, the owner's `sub`, and the user's cogless `ping`.
ListenerContexts ==
    {ctx \in Contexts :
        /\ ctx.err = "CommandInvokeError" /\ ~ctx.handled
        /\ \/ ctx.author = OwnerId
           \/ ctx.command = Sub /\ ctx.guild = GuildId
           \/ ctx.command = GrpSub /\ ctx.guild = None
           \/ ctx.command = Ping}

\* The bot dispatches the event: the handler runs lines 328-337 and either
\* returns or suspends at its first await, line 339.
start_on_command_error(ctx) ==
    /\ loaded
    /\ ctx.author \notin blacklist
    /\ BagCardinality(inflight) < MaxTasks
    /\ CountOf(cache, ctx.author, ctx.command.qualified_name) + Uncounted(ctx) < MaxCount
    /\ last' = [op |-> "on_command_error", arg |-> ctx]
    /\ sent' = None
    /\ log' = None
    /\ exc' = None
    /\ IF Prefiltered(ctx)
       THEN UNCHANGED inflight
       ELSE inflight' = inflight (+) SetToBag({ListenerFrame(ctx, "enabled", None)})
    /\ UNCHANGED <<config, userconf, cache, first_run, running, loaded, blacklist>>

\* Line 339, `await self.config.enabled()`.
await_enabled(t) ==
    /\ t.pc = "enabled"
    /\ ListenerStep(t)
    /\ IF ~config.enabled THEN Return(t) ELSE Resume(t, "is_owner", None)
    /\ sent' = None
    /\ log' = None
    /\ UNCHANGED <<cache, blacklist>>

\* Lines 339-347, `await self.bot.is_owner(user)`, and for a guild event the
\* way to `await coro.guilds()`.
await_is_owner(t) ==
    /\ t.pc = "is_owner"
    /\ ListenerStep(t)
    /\ IF is_owner(t.ctx.author)
       THEN Return(t) /\ log' = None
       ELSE IF t.ctx.guild # None
       THEN Resume(t, "guilds", None) /\ log' = "In a guild"
       ELSE Resume(t, "commands", None) /\ log' = None
    /\ sent' = None
    /\ UNCHANGED <<cache, blacklist>>

\* Line 347, `await coro.guilds()`.
await_guilds(t) ==
    /\ t.pc = "guilds"
    /\ ListenerStep(t)
    /\ IF In(t.ctx.guild, config.ignore.guilds)
       THEN Return(t) /\ log' = "Ignored tbh"
       ELSE Resume(t, "channels", None) /\ log' = None
    /\ sent' = None
    /\ UNCHANGED <<cache, blacklist>>

\* Lines 348-352, `await coro.channels()`.
await_channels(t) ==
    /\ t.pc = "channels"
    /\ ListenerStep(t)
    /\ IF In(ChannelOf(t.ctx), config.ignore.channels)
       THEN Return(t) /\ log' = "Ignored tbh"
       ELSE Resume(t, "commands", None) /\ log' = None
    /\ sent' = None
    /\ UNCHANGED <<cache, blacklist>>

\* Lines 354-356, `await self.config.whitelist.commands()`.
await_commands(t) ==
    /\ t.pc = "commands"
    /\ ListenerStep(t)
    /\ IF In(t.ctx.command.qualified_name, config.whitelist.commands)
       THEN Return(t)
       ELSE Resume(t, "users", None)
    /\ sent' = None
    /\ log' = None
    /\ UNCHANGED <<cache, blacklist>>

\* Lines 357-358, `await self.config.whitelist.users()`.
await_users(t) ==
    /\ t.pc = "users"
    /\ ListenerStep(t)
    /\ IF In(t.ctx.author, config.whitelist.users)
       THEN Return(t)
       ELSE Resume(t, "message_enabled", None)
    /\ sent' = None
    /\ log' = None
    /\ UNCHANGED <<cache, blacklist>>

\* Line 359, `await self.config.message_enabled()`; with the message off the
\* handler runs on through lines 362-368 to the await of line 370.
await_message_enabled(t) ==
    /\ t.pc = "message_enabled"
    /\ ListenerStep(t)
    /\ IF config.message_enabled
       THEN /\ Resume(t, "message", None)
            /\ UNCHANGED cache
       ELSE /\ cache' = Increment(cache, t.ctx.author, t.ctx.command.qualified_name)
            /\ Resume(t, "amount", None)
    /\ sent' = None
    /\ log' = None
    /\ UNCHANGED blacklist

\* Line 360, `await self.config.message()`, the argument of ctx.send.
await_message(t) ==
    /\ t.pc = "message"
    /\ ListenerStep(t)
    /\ Resume(t, "send", config.message)
    /\ sent' = None
    /\ log' = None
    /\ UNCHANGED <<cache, blacklist>>

\* Lines 360-370, `await ctx.send(...)`: the warning is out, and the handler
\* runs on through lines 362-368 to the await of line 370.
await_send(t) ==
    /\ t.pc = "send"
    /\ ListenerStep(t)
    /\ sent' = t.message
    /\ cache' = Increment(cache, t.ctx.author, t.ctx.command.qualified_name)
    /\ Resume(t, "amount", None)
    /\ log' = None
    /\ UNCHANGED blacklist

\* Lines 370-376, `await self.config.amount()` and the test of line 371.
await_amount(t) ==
    /\ t.pc = "amount"
    /\ ListenerStep(t)
    /\ IF Reached(cache, t.ctx)
       THEN Resume(t, "add_to_blacklist", None) /\ log' = "Blacklisted"
       ELSE Return(t) /\ log' = None
    /\ sent' = None
    /\ UNCHANGED <<cache, blacklist>>

\* Lines 376-377, `await self.bot.add_to_blacklist({user})` and the dispatch.
await_add_to_blacklist(t) ==
    /\ t.pc = "add_to_blacklist"
    /\ ListenerStep(t)
    /\ blacklist' = blacklist \cup {t.ctx.author}
    /\ Return(t)
    /\ sent' = None
    /\ log' = None
    /\ UNCHANGED cache

\* The listener's handlers overlapping each other and the commands that set
\* what the handlers read on their way.
ListenerNext ==
    \/ cog_load
    \/ error_blacklist_enable
    \/ \E amount \in AmountArgs : error_blacklist_amount(amount)
    \/ message_enable
    \/ \E ctx \in ListenerContexts : start_on_command_error(ctx)
    \/ \E t \in Suspended : await_enabled(t)
    \/ \E t \in Suspended : await_is_owner(t)
    \/ \E t \in Suspended : await_guilds(t)
    \/ \E t \in Suspended : await_channels(t)
    \/ \E t \in Suspended : await_commands(t)
    \/ \E t \in Suspended : await_users(t)
    \/ \E t \in Suspended : await_message_enabled(t)
    \/ \E t \in Suspended : await_message(t)
    \/ \E t \in Suspended : await_send(t)
    \/ \E t \in Suspended : await_amount(t)
    \/ \E t \in Suspended : await_add_to_blacklist(t)

ListenerSpec == Init /\ [][ListenerNext]_vars

\* ---------------------------------------------------------------- the list commands, await by await
\* The frame of a list command suspended at an await: the command, its
\* argument, the call it awaits, and inside `async with` the list the context
\* manager will store on its way out.
CallFrame(op, arg, pc, data) ==
    [op |-> op, arg |-> arg, pc |-> pc, data |-> data]

\* The command with frame f goes on to its next await.
Goto(f, pc, data) ==
    inflight' = (inflight (-) SetToBag({f})) (+) SetToBag({CallFrame(f.op, f.arg, pc, data)})

\* The list a command works on: config.ignore.<kind>s or config.whitelist.<kind>s.
ListId(f) ==
    <<IF f.op \in {"ignore_add", "ignore_remove"} THEN "ignore" ELSE "whitelist", f.arg.kind>>

\* No command is inside that list's context manager.
NeverLocked(list) == FALSE

\* `async with val()`: a command is inside that list's context manager, between
\* the lock taken on the way in and its release on the way out.
Locked(list) ==
    \E g \in Suspended :
        /\ g.op \in {"ignore_add", "ignore_remove", "whitelist_add", "whitelist_remove"}
        /\ ListId(g) = list
        /\ g.pc \in {"send_inside", "exit"}

\* A command is called: it runs to its first await.
Call(op, arg, pc) ==
    /\ loaded
    /\ BagCardinality(inflight) < MaxTasks
    /\ inflight' = inflight (+) SetToBag({CallFrame(op, arg, pc, <<>>)})
    /\ last' = [op |-> op, arg |-> arg, pc |-> "call"]
    /\ sent' = None
    /\ log' = None
    /\ exc' = None
    /\ UNCHANGED <<config, userconf, cache, first_run, running, loaded, blacklist>>

\* The command `op` is resumed from the await `pc`; what it leaves alone.
CallStep(f, op, pc) ==
    /\ f.op = op
    /\ f.pc = pc
    /\ last' = [op |-> op, arg |-> f.arg, pc |-> pc]
    /\ log' = None
    /\ UNCHANGED <<userconf, cache, first_run, running, loaded, blacklist>>

\* The arguments of the overlapping whitelist commands: one entry for each of
\* the three lists.
OverlapTargets == {t \in WhitelistTargets : t.value # GrpSub.qualified_name}

\* `whitelist add` up to line 222, `await val()`.
call_whitelist_add(t) ==
    /\ t \in OverlapTargets
    /\ Call("whitelist_add", t, "val")

\* Lines 222-224: the list is read and tested.
whitelist_add_val(f) ==
    LET user == get_user_or_com(f.arg)[2]
        to_add == get_user_or_com(f.arg)[3]
    IN  /\ CallStep(f, "whitelist_add", "val")
        /\ IF In(to_add, WhitelistOf(user))
           THEN Goto(f, "send_return", <<>>)
           ELSE Goto(f, "send", <<>>)
        /\ sent' = None
        /\ exc' = None
        /\ UNCHANGED config

\* Line 223, `return await ctx.send(...)`.
whitelist_add_send_return(f) ==
    /\ CallStep(f, "whitelist_add", "send_return")
    /\ sent' = "That " \o get_user_or_com(f.arg)[2] \o " is already in the whitelist."
    /\ Return(f)
    /\ exc' = None
    /\ UNCHANGED config

\* Lines 225-226, `await ctx.send(...)`, then on to `async with val()`.
whitelist_add_send(f) ==
    /\ CallStep(f, "whitelist_add", "send")
    /\ sent' = "Done. Added to the whitelist as a " \o get_user_or_com(f.arg)[2]
    /\ Goto(f, "enter", <<>>)
    /\ exc' = None
    /\ UNCHANGED config

\* Lines 226-227: the context manager takes the lock and reads the list, and
\* f.append(to_add) runs.
whitelist_add_enter(f) ==
    LET user == get_user_or_com(f.arg)[2]
        to_add == get_user_or_com(f.arg)[3]
    IN  /\ CallStep(f, "whitelist_add", "enter")
        /\ ~Locked(ListId(f))
        /\ Goto(f, "exit", Append(WhitelistOf(user), to_add))
        /\ sent' = None
        /\ exc' = None
        /\ UNCHANGED config

\* The end of line 227: the context manager stores the list and releases the lock.
whitelist_add_exit(f) ==
    /\ CallStep(f, "whitelist_add", "exit")
    /\ config' = WithWhitelist(get_user_or_com(f.arg)[2], f.data)
    /\ Return(f)
    /\ sent' = None
    /\ exc' = None

\* `whitelist remove` up to line 240, `await val()`.
call_whitelist_remove(t) ==
    /\ t \in OverlapTargets
    /\ Call("whitelist_remove", t, "val")

\* Lines 240-242: the list is read and tested.
whitelist_remove_val(f) ==
    LET user == get_user_or_com(f.arg)[2]
        to_add == get_user_or_com(f.arg)[3]
    IN  /\ CallStep(f, "whitelist_remove", "val")
        /\ IF ~In(to_add, WhitelistOf(user))
           THEN Goto(f, "send_return", <<>>)
           ELSE Goto(f, "send", <<>>)
        /\ sent' = None
        /\ exc' = None
        /\ UNCHANGED config

\* Line 241, `return await ctx.send(...)`.
whitelist_remove_send_return(f) ==
    /\ CallStep(f, "whitelist_remove", "send_return")
    /\ sent' = "That " \o get_user_or_com(f.arg)[2] \o " is not in the whitelist."
    /\ Return(f)
    /\ exc' = None
    /\ UNCHANGED config

\* Lines 243-245, `await ctx.send(...)`, then on to `async with val()`.
whitelist_remove_send(f) ==
    /\ CallStep(f, "whitelist_remove", "send")
    /\ sent' = "Done. Removed from the whitelist as a " \o get_user_or_com(f.arg)[2]
    /\ Goto(f, "enter", <<>>)
    /\ exc' = None
    /\ UNCHANGED config

\* Lines 245-246: the context manager takes the lock and reads the list, and
\* f.remove(to_add) runs; list.remove of a value not in the list raises
\* ValueError, with which the context manager releases the lock at once.
whitelist_remove_enter(f) ==
    LET user == get_user_or_com(f.arg)[2]
        to_add == get_user_or_com(f.arg)[3]
    IN  /\ CallStep(f, "whitelist_remove", "enter")
        /\ ~Locked(ListId(f))
        /\ IF In(to_add, WhitelistOf(user))
           THEN /\ Goto(f, "exit", ListRemove(WhitelistOf(user), to_add))
                /\ exc' = None
           ELSE /\ Return(f)
                /\ exc' = "ValueError"
        /\ sent' = None
        /\ UNCHANGED config

\* The end of line 246: the context manager stores the list and releases the lock.
whitelist_remove_exit(f) ==
    /\ CallStep(f, "whitelist_remove", "exit")
    /\ config' = WithWhitelist(get_user_or_com(f.arg)[2], f.data)
    /\ Return(f)
    /\ sent' = None
    /\ exc' = None

\* The whitelist commands overlapping each other.
WhitelistNext ==
    \/ cog_load
    \/ \E t \in OverlapTargets : call_whitelist_add(t)
    \/ \E f \in Suspended : whitelist_add_val(f)
    \/ \E f \in Suspended : whitelist_add_send_return(f)
    \/ \E f \in Suspended : whitelist_add_send(f)
    \/ \E f \in Suspended : whitelist_add_enter(f)
    \/ \E f \in Suspended : whitelist_add_exit(f)
    \/ \E t \in OverlapTargets : call_whitelist_remove(t)
    \/ \E f \in Suspended : whitelist_remove_val(f)
    \/ \E f \in Suspended : whitelist_remove_send_return(f)
    \/ \E f \in Suspended : whitelist_remove_send(f)
    \/ \E f \in Suspended : whitelist_remove_enter(f)
    \/ \E f \in Suspended : whitelist_remove_exit(f)

WhitelistSpec == Init /\ [][WhitelistNext]_vars

\* A second guild, and the arguments of the overlapping ignore commands.
OtherGuildId == "other guild"
OverlapIgnoreTargets ==
    IgnoreTargets \cup {[kind |-> "guild", id |-> OtherGuildId]}

\* `ignore add` up to line 129, the way into `async with coro() as data`.
call_ignore_add(t) ==
    /\ t \in OverlapIgnoreTargets
    /\ Call("ignore_add", t, "enter")

\* Lines 129-132: the context manager takes the lock and reads the list; the
\* id is tested against it and either the reply is sent from inside the block
\* or the id is appended and the block is left.
ignore_add_enter(f) ==
    /\ CallStep(f, "ignore_add", "enter")
    /\ ~Locked(ListId(f))
    /\ IF In(f.arg.id, IgnoreList(f.arg.kind))
       THEN Goto(f, "send_inside", IgnoreList(f.arg.kind))
       ELSE Goto(f, "exit", Append(IgnoreList(f.arg.kind), f.arg.id))
    /\ sent' = None
    /\ exc' = None
    /\ UNCHANGED config

\* Line 131, `return await ctx.send(...)`: the block is left with the list as
\* it was read, and the lock is released.
ignore_add_send_inside(f) ==
    /\ CallStep(f, "ignore_add", "send_inside")
    /\ sent' = "That " \o f.arg.kind \o " is already being ignored"
    /\ Return(f)
    /\ exc' = None
    /\ UNCHANGED config

\* The end of line 132: the context manager stores the list and releases the
\* lock; on to line 133.
ignore_add_exit(f) ==
    /\ CallStep(f, "ignore_add", "exit")
    /\ config' = WithIgnoreList(f.arg.kind, f.data)
    /\ Goto(f, "send", <<>>)
    /\ sent' = None
    /\ exc' = None

\* Line 133, `await ctx.send(...)`.
ignore_add_send(f) ==
    /\ CallStep(f, "ignore_add", "send")
    /\ sent' = "I will now ignore the " \o f.arg.kind
    /\ Return(f)
    /\ exc' = None
    /\ UNCHANGED config

\* `ignore remove` up to line 146, the way into `async with coro() as data`.
call_ignore_remove(t) ==
    /\ t \in OverlapIgnoreTargets
    /\ Call("ignore_remove", t, "enter")

\* Lines 146-149: the context manager takes the lock and reads the list; the
\* id is tested against it and either the reply is sent from inside the block
\* or the id is removed and the block is left.
ignore_remove_enter(f) ==
    /\ CallStep(f, "ignore_remove", "enter")
    /\ ~Locked(ListId(f))
    /\ IF ~In(f.arg.id, IgnoreList(f.arg.kind))
       THEN Goto(f, "send_inside", IgnoreList(f.arg.kind))
       ELSE Goto(f, "exit", ListRemove(IgnoreList(f.arg.kind), f.arg.id))
    /\ sent' = None
    /\ exc' = None
    /\ UNCHANGED config

\* Line 148, `return await ctx.send(...)`: the block is left with the list as
\* it was read, and the lock is released.
ignore_remove_send_inside(f) ==
    /\ CallStep(f, "ignore_remove", "send_inside")
    /\ sent' = "That " \o f.arg.kind \o " is not in the ignored list"
    /\ Return(f)
    /\ exc' = None
    /\ UNCHANGED config

\* The end of line 149: the context manager stores the list and releases the
\* lock; on to line 150.
ignore_remove_exit(f) ==
    /\ CallStep(f, "ignore_remove", "exit")
    /\ config' = WithIgnoreList(f.arg.kind, f.data)
    /\ Goto(f, "send", <<>>)
    /\ sent' = None
    /\ exc' = None

\* Line 150, `await ctx.send(...)`.
ignore_remove_send(f) ==
    /\ CallStep(f, "ignore_remove", "send")
    /\ sent' = "I will no longer ignore the " \o f.arg.kind
    /\ Return(f)
    /\ exc' = None
    /\ UNCHANGED config

\* The ignore commands overlapping each other.
IgnoreNext ==
    \/ cog_load
    \/ \E t \in OverlapIgnoreTargets : call_ignore_add(t)
    \/ \E f \in Suspended : ignore_add_enter(f)
    \/ \E f \in Suspended : ignore_add_send_inside(f)
    \/ \E f \in Suspended : ignore_add_exit(f)
    \/ \E f \in Suspended : ignore_add_send(f)
    \/ \E t \in OverlapIgnoreTargets : call_ignore_remove(t)
    \/ \E f \in Suspended : ignore_remove_enter(f)
    \/ \E f \in Suspended : ignore_remove_send_inside(f)
    \/ \E f \in Suspended : ignore_remove_exit(f)
    \/ \E f \in Suspended : ignore_remove_send(f)

IgnoreSpec == Init /\ [][IgnoreNext]_vars

\* ---------------------------------------------------------------- properties
\* The names a counter is kept or looked up under.
Names == {c.qualified_name : c \in Commands} \cup {c.name : c \in Commands}

\* The last handler was on_command_error and it counted its event.
Counted == last.op = "on_command_error" /\ ~Skipped(last.arg)

\* The stored count of a user for a name (0: none).
PersistedCount(uid, name) ==
    IF uid \in DOMAIN userconf THEN GetCount(userconf[uid].errors, name) ELSE 0

\* C1: a counted event that brings its author's counter for the command (a
\* top-level command or a subcommand) to the amount or above puts the author
\* on the blacklist during that event.
C1_BlacklistedAtAmount ==
    (/\ Counted
     /\ CountOf(cache, last.arg.author, last.arg.command.qualified_name) >= config.amount)
        => last.arg.author \in blacklist

\* C2: in every step of an event, a settings command or a clear_cache run, no
\* counter of a user gets lower or goes away, unless the user is blacklisted
\* or the step is a clear_cache run that clears the usage.
C2_CountersOnlyIncrease ==
    [][last'.op \notin {"cog_load", "cog_unload"} =>
        \A u \in Users, n \in Names :
            \/ CountOf(cache', u, n) >= CountOf(cache, u, n)
            \/ u \in blacklist'
            \/ last'.op = "clear_cache" /\ log' = "Cleared user usage"]_vars

\* C2's case: a counter has gone up twice and its user is not blacklisted.
C2_Witness ==
    /\ CountOf(cache, UserId, GrpSub.qualified_name) = 2
    /\ CountOf(cache, UserId, Sub.qualified_name) = 1
    /\ UserId \notin blacklist

\* C3: after a clear_cache run that clears the usage (clear_usage set, not
\* the first run) every user's counters in the cache are empty.
C3_ClearEmptiesCache ==
    (last.op = "clear_cache" /\ log = "Cleared user usage") =>
        \A u \in Users, n \in Names : CountOf(cache, u, n) = 0

\* C4: after every counted event the stored errors of the author hold the
\* same counts as the cache.
C4_CacheMirrored ==
    Counted =>
        \A n \in Names : PersistedCount(last.arg.author, n) = CountOf(cache, last.arg.author, n)

\* C5: an event of a command whose cog is in the cog whitelist changes no
\* counter, sends no warning and blacklists nobody.
C5_CogWhitelistIgnored ==
    [][(last'.op = "on_command_error" /\ In(last'.arg.command.cog, config.whitelist.cogs)) =>
        (UNCHANGED <<cache, blacklist>> /\ sent' = None)]_vars

\* An unhandled CommandInvokeError of a cog command by a user who is no owner,
\* while the watcher is enabled.
Watched(ctx) ==
    /\ ~ctx.handled
    /\ ctx.err = "CommandInvokeError"
    /\ ctx.command.cog # None
    /\ config.enabled
    /\ ctx.author # OwnerId

\* The event's guild, its channel in a guild, its command's qualified name or
\* its author is in the list that makes the watcher pass it over.
Listed(ctx) ==
    \/ ctx.guild # None /\ In(ctx.guild, config.ignore.guilds)
    \/ ctx.guild # None /\ In(ChannelOf(ctx), config.ignore.channels)
    \/ In(ctx.command.qualified_name, config.whitelist.commands)
    \/ In(ctx.author, config.whitelist.users)

\* The list of settings c that holds entries of that kind.
ListOf(c, kind) ==
    CASE kind = "guild" -> c.ignore.guilds
      [] kind = "channel" -> c.ignore.channels
      [] kind = "user" -> c.whitelist.users
      [] kind = "command" -> c.whitelist.commands
      [] kind = "cog" -> c.whitelist.cogs

\* How many times x is in the list.
Occurrences(x, list) == Cardinality({i \in 1..Len(list) : list[i] = x})

\* The last command removed its argument from an ignore list or a whitelist.
Removed ==
    \/ last.op = "ignore_remove" /\ sent = "I will no longer ignore the " \o last.arg.kind
    \/ last.op = "whitelist_remove" /\ sent = "Done. Removed from the whitelist as a " \o last.arg.kind

\* C6: an event that is listed (ignored guild, ignored channel of a guild,
\* whitelisted qualified name, whitelisted author) changes no counter and not
\* the blacklist and sends nothing; a successful remove of an entry that its
\* list held once leaves the entry out of the list, and a watched event that
\* is not listed is counted.
C6_ListedEventsPassedOver ==
    [][/\ (last'.op = "on_command_error" /\ Listed(last'.arg)) =>
            (UNCHANGED <<cache, blacklist>> /\ sent' = None)
       /\ (/\ last'.op = "ignore_remove" /\ Removed'
           /\ Occurrences(last'.arg.id, ListOf(config, last'.arg.kind)) = 1) =>
            ~In(last'.arg.id, ListOf(config', last'.arg.kind))
       /\ (/\ last'.op = "whitelist_remove" /\ Removed'
           /\ Occurrences(last'.arg.value, ListOf(config, last'.arg.kind)) = 1) =>
            ~In(last'.arg.value, ListOf(config', last'.arg.kind))
       /\ (last'.op = "on_command_error" /\ Watched(last'.arg) /\ ~Listed(last'.arg)) =>
            CountOf(cache', last'.arg.author, last'.arg.command.qualified_name)
                = CountOf(cache, last'.arg.author, last'.arg.command.qualified_name) + 1
      ]_vars

\* C6's case: a watched event in an ignored channel of a guild that is not
\* ignored has been passed over, for an author and a command with a count.
C6_Witness ==
    /\ last.op = "on_command_error"
    /\ Watched(last.arg)
    /\ last.arg.guild # None
    /\ In(ChannelOf(last.arg), config.ignore.channels)
    /\ ~In(last.arg.guild, config.ignore.guilds)
    /\ CountOf(cache, last.arg.author, last.arg.command.qualified_name) = 1
    /\ sent = None

\* C7: an event that arrives while the watcher is disabled, or whose author
\* is an owner, changes no counter and not the blacklist and sends nothing;
\* no step puts the owner on the blacklist or gives the owner a count, and
\* the watcher starts disabled.
C7_DisabledAndOwnerUntouched ==
    [][/\ (last'.op = "on_command_error" /\ (~config.enabled \/ last'.arg.author = OwnerId)) =>
            (UNCHANGED <<cache, blacklist>> /\ sent' = None)
       /\ OwnerId \notin blacklist'
       /\ \A n \in Names : CountOf(cache', OwnerId, n) = 0
       /\ last.op = "__init__" => ~config.enabled
      ]_vars

\* C7's case: an owner's unhandled CommandInvokeError of a cog command has
\* been handled while the watcher is enabled and has counted a user's.
C7_Witness ==
    /\ last.op = "on_command_error"
    /\ last.arg.author = OwnerId
    /\ ~last.arg.handled /\ last.arg.err = "CommandInvokeError" /\ last.arg.command.cog # None
    /\ config.enabled
    /\ CountOf(cache, UserId, Sub.qualified_name) > 0
    /\ sent = None

\* C8: `message set` with None stores the default text and replies that the
\* message has been reset, without raising; with a text it stores that text.
C8_MessageSetOrReset ==
    last.op = "message_set" =>
        IF last.arg = None
        THEN config.message = DefaultMessage /\ sent = "The message has been reset" /\ exc = None
        ELSE config.message = last.arg /\ sent = "The message has been set" /\ exc = None

\* C9: a clear_cache run after the first that finds clear_usage off changes
\* no stored data and no counter and stops the task; a stopped task runs no
\* more, and only cog_load starts it, and only when clear_usage is on.
C9_ClearingOffIsNoOp ==
    [][/\ (last'.op = "clear_cache" /\ ~first_run /\ ~config.clear_usage) =>
            (UNCHANGED <<cache, userconf, blacklist>> /\ ~running' /\ log' = None)
       /\ last'.op = "clear_cache" => running
       /\ last'.op = "cog_load" => running' = config.clear_usage
       /\ (running' /\ ~running) => (last'.op = "cog_load" /\ config.clear_usage)
      ]_vars

\* C9's case: a run has found clear_usage off and stopped the task, with
\* counters in the cache.
C9_Witness ==
    /\ last.op = "clear_cache"
    /\ loaded /\ ~running /\ ~first_run
    /\ ~config.clear_usage
    /\ CountOf(cache, UserId, Sub.qualified_name) > 0

\* C10: once `clearusage` has switched clear_usage on, a clear_cache run that
\* clears the usage follows, unless the flag is switched off again or the cog
\* is unloaded first.
C10_UsageEventuallyCleared ==
    [](( /\ last.op = "error_blacklist_clear_usage"
         /\ sent = "Usage clearing is now enabled."
         /\ config.clear_usage )
        => <>(log = "Cleared user usage" \/ ~config.clear_usage \/ ~loaded))

\* C11: an event blacklists its author only if the author's counter for the
\* command that just errored has reached the amount in force.
C11_BlacklistedOnlyAtAmount ==
    (last.op = "on_command_error" /\ log = "Blacklisted") =>
        CountOf(cache, last.arg.author, last.arg.command.qualified_name) >= config.amount

\* The step resumes a handler of user u on command n at the await after which
\* lines 362-368 run: the send of the warning, or the read of message_enabled
\* when it is off.
CountingStep(u, n) ==
    \E t \in Suspended :
        /\ t.op = "on_command_error"
        /\ t.ctx.author = u
        /\ t.ctx.command.qualified_name = n
        /\ \/ t.pc = "send"
           \/ t.pc = "message_enabled" /\ ~config.message_enabled
        /\ inflight' = (inflight (-) SetToBag({t}))
                            (+) SetToBag({ListenerFrame(t.ctx, "amount", None)})

\* C12: with overlapping handlers of on_command_error, a step that counts an
\* error raises the counter of its own user and qualified command name by
\* exactly 1, and every other counter in every step stays as it was.
C12_CountedOnceEach ==
    [][\A u \in Users, n \in Names :
        CountOf(cache', u, n) =
            CountOf(cache, u, n) + (IF CountingStep(u, n) THEN 1 ELSE 0)]_vars

\* Two handlers of the same user and command overlapped, both have counted
\* and wait for the amount, and the counter shows both.
C12_Witness ==
    \E t \in Suspended :
        /\ t.op = "on_command_error"
        /\ t.pc = "amount"
        /\ CopiesIn(t, inflight) = 2
        /\ CountOf(cache, t.ctx.author, t.ctx.command.qualified_name) = 2

\* C13: the user, command and cog whitelists are sets: none of them holds the
\* same entry twice, however the whitelist commands overlap.
C13_WhitelistsAreSets ==
    \A t \in OverlapTargets :
        Occurrences(t.value, ListOf(config, t.kind)) <= 1

\* C14: however `ignore add` and `ignore remove` overlap, no ignore list holds
\* an id twice; an add stores the list with the id appended only if the id was
\* not in it (and removing the id again gives the list back), a remove stores
\* the list without the id only if the id was in it, the replies "already
\* being ignored" and "not in the ignored list" come with the id in, or not
\* in, a list that stays as it is, and no other step of theirs changes a setting.
C14_IgnoreListsKept ==
    [][/\ \A t \in OverlapIgnoreTargets : Occurrences(t.id, ListOf(config', t.kind)) <= 1
       /\ last'.op \in {"ignore_add", "ignore_remove"} =>
            LET id == last'.arg.id
                before == ListOf(config, last'.arg.kind)
                after == ListOf(config', last'.arg.kind)
                stored == last'.pc = "exit"
                refused == last'.pc = "send_inside"
            IN  /\ (last'.op = "ignore_add" /\ stored) =>
                    /\ ~In(id, before)
                    /\ after = Append(before, id)
                    /\ ListRemove(after, id) = before
                /\ (last'.op = "ignore_add" /\ refused) =>
                    /\ In(id, before)
                    /\ sent' = "That " \o last'.arg.kind \o " is already being ignored"
                /\ (last'.op = "ignore_remove" /\ stored) =>
                    /\ In(id, before)
                    /\ after = ListRemove(before, id)
                    /\ ~In(id, after)
                /\ (last'.op = "ignore_remove" /\ refused) =>
                    /\ ~In(id, before)
                    /\ sent' = "That " \o last'.arg.kind \o " is not in the ignored list"
                /\ ~stored => config' = config]_vars

\* An `ignore add` has stored its id after another guild's while another
\* `ignore add` of the same id waits at the way into the block, and the list
\* holds the id once.
C14_Witness ==
    /\ last.op = "ignore_add"
    /\ last.pc = "exit"
    /\ Len(ListOf(config, last.arg.kind)) = 2
    /\ Occurrences(last.arg.id, ListOf(config, last.arg.kind)) = 1
    /\ \E g \in Suspended :
        g.op = "ignore_add" /\ g.arg = last.arg /\ g.pc = "enter"

\* C15: a `whitelist remove` that has replied that it removed the entry does
\* not fail afterwards, and when it ends the entry is no longer in the list.
C15_RemoveEndsAsReplied ==
    last.op = "whitelist_remove" =>
        /\ exc = None
        /\ last.pc = "exit" =>
            ~In(last.arg.value, ListOf(config, last.arg.kind))

====
